---- MODULE Spec2Model ----
(***************************************************************************)
(* A model of freewili/serial.py: one FreeWiliSerial handle, its pyserial  *)
(* transport, the needs_open guard around every public operation and the   *)
(* protocol operations themselves.                                         *)
(*                                                                         *)
(* The program is single-threaded and blocking, so one action is one whole *)
(* call of a public method.  What the transport does inside the call (an   *)
(* open that fails, a short write, the reply bytes, a timeout) is drawn    *)
(* with \E from small sets.  Every call leaves in `last` what it did: the  *)
(* transport calls it made, in order (last.tr), and how it ended           *)
(* (last.res: the returned Ok/Err, or the exception that left the call).   *)
(* Bytes are integers 0..255; text is a sequence of character codes.       *)
(***************************************************************************)
EXTENDS Integers, Sequences, FiniteSets, TLC

VARIABLES
    is_open,      \* self._serial.is_open
    stay_open,    \* self._stay_open
    in_with,      \* the caller is inside a `with handle:` block
    sess_inits,   \* menu control sequences written since the transport was opened
    sess_menu,    \* the control byte of the latest of them, 0 when there is none
    last,         \* the record of the last call on the handle
    ck_file,      \* checksum loop of send_file: the file being read
    ck_pos,       \* checksum loop: bytes read so far
    checksum,     \* checksum loop: the accumulator
    ck_rev,       \* the accumulator of the same loop over the file read backwards
    baudrate,     \* self._serial.baudrate
    processor_type, \* find_all: the filter argument
    ports,        \* find_all: the ports of comports() not yet visited
    devices,      \* find_all: the list `devices`
    visited,      \* find_all: what happened to each visited candidate
    pt_call       \* a call of _write_and_read_bytes_cmd: arguments and outcome

vars == <<is_open, stay_open, in_with, sess_inits, sess_menu, last, ck_file, ck_pos, checksum, ck_rev,
          baudrate, processor_type, ports, devices, visited, pt_call>>
ckvars == <<ck_file, ck_pos, checksum, ck_rev>>
favars == <<processor_type, ports, devices, visited>>

(***************************************************************************)
(* Character codes and protocol constants                                  *)
(***************************************************************************)
CMD_DISABLE_MENU == 2
CMD_ENABLE_MENU == 3
CR == 13
LF == 10
SP == 32
CH_0 == 48
CH_h == 104
CH_l == 108
CH_g == 103
CH_o == 111
CH_p == 112
CH_s == 115
CH_i == 105
CH_t == 116
CH_k == 107
CH_u == 117
CH_w == 119
CH_m == 109
CH_x == 120
CH_f == 102

Min(a, b) == IF a < b THEN a ELSE b

\* str(n) for n >= 0, as f"{n}" renders it: decimal digits, no padding
RECURSIVE Dec(_)
Dec(n) == IF n < 10 THEN <<CH_0 + n>> ELSE Dec(n \div 10) \o <<CH_0 + (n % 10)>>

(***************************************************************************)
(* Outcomes and transport events                                           *)
(***************************************************************************)
\* result.Ok(val), result.Err(msg) and an exception leaving the call
Ok(tag, val) == [kind |-> "Ok", tag |-> tag, val |-> val]
Err(tag, val) == [kind |-> "Err", tag |-> tag, val |-> val]
Raise(exc) == [kind |-> "Raise", tag |-> exc, val |-> <<>>]

\* one call on self._serial: e names the method, data the bytes passed or
\* returned; n is -1 when the call raised, else the count a write() returned,
\* the size a read() was asked for, and 0 for the other calls
Ev(e, data, n) == [e |-> e, data |-> data, n |-> n]
Returned(e) == Ev(e, <<>>, 0)
Raised(e) == Ev(e, <<>>, -1)

\* the trace holds a call of serial.open()
HasOpen(tr) == \E i \in 1..Len(tr) : tr[i].e = "open"

\* what a write() of the transport does: accept all bytes but `lost`, raise
\* from write(), or accept all and raise from the flush() that follows
W_OK == [exc |-> "none", lost |-> 0]
W_SHORT == [exc |-> "none", lost |-> 1]
W_RAISE == [exc |-> "write", lost |-> 0]
W_FLUSH_RAISE == [exc |-> "flush", lost |-> 0]
WriteEnvs == {W_OK, W_SHORT, W_RAISE, W_FLUSH_RAISE}

Accepted(data, w) == Len(data) - Min(w.lost, Len(data))

\* a write that is tried a second time when the transport took too few bytes
_write_serial_Retry(data, w) ==
    IF w.exc = "write"
    THEN [res |-> Err("SerialException", <<>>), tr |-> <<Ev("write", data, -1)>>]
    ELSE IF Accepted(data, w) # Len(data)
    THEN [res |-> Err("Only wrote", <<Accepted(data, w), Len(data)>>),
          tr |-> <<Ev("write", data, Accepted(data, w)), Ev("write", data, Accepted(data, w))>>]
    ELSE IF w.exc = "flush"
    THEN [res |-> Err("SerialException", <<>>),
          tr |-> <<Ev("write", data, Len(data)), Raised("flush")>>]
    ELSE [res |-> Ok("Wrote", <<Len(data)>>),
          tr |-> <<Ev("write", data, Len(data)), Returned("flush")>>]

\* FreeWiliSerial._write_serial
\* _write_serial(data): [res |-> the Result returned, tr |-> transport events]
_write_serial(data, w) ==
    IF w.exc = "write"
    THEN [res |-> Err("SerialException", <<>>), tr |-> <<Ev("write", data, -1)>>]
    ELSE IF Accepted(data, w) # Len(data)
    THEN [res |-> Err("Only wrote", <<Accepted(data, w), Len(data)>>),
          tr |-> <<Ev("write", data, Accepted(data, w))>>]
    ELSE IF w.exc = "flush"
    THEN [res |-> Err("SerialException", <<>>),
          tr |-> <<Ev("write", data, Len(data)), Raised("flush")>>]
    ELSE [res |-> Ok("Wrote", <<Len(data)>>),
          tr |-> <<Ev("write", data, Len(data)), Returned("flush")>>]

(***************************************************************************)
(* The needs_open guard                                                    *)
(***************************************************************************)
\* what the transport does during _set_menu_enabled: the two buffer resets
\* succeed or raise, the write behaves as w, the final flush succeeds or raises
I_OK == [reset_ok |-> TRUE, w |-> W_OK, flush_ok |-> TRUE]
I_RESET_RAISE == [reset_ok |-> FALSE, w |-> W_OK, flush_ok |-> TRUE]
I_SHORT == [reset_ok |-> TRUE, w |-> W_SHORT, flush_ok |-> TRUE]
I_FLUSH_RAISE == [reset_ok |-> TRUE, w |-> W_OK, flush_ok |-> FALSE]
InitEnvs == {I_OK, I_RESET_RAISE, I_SHORT, I_FLUSH_RAISE}

\* what the transport does while the guard opens it: open() raises, or it
\* opens and _set_menu_enabled meets ie.  An open transport is asked nothing.
G_OPEN_RAISE == [open_ok |-> FALSE, ie |-> I_OK]
GuardEnvs == {G_OPEN_RAISE} \cup [open_ok : {TRUE}, ie : InitEnvs]
GuardEnvsNow == IF is_open THEN {[open_ok |-> TRUE, ie |-> I_OK]} ELSE GuardEnvs

MenuCmd(enabled) == <<IF enabled THEN CMD_ENABLE_MENU ELSE CMD_DISABLE_MENU, CR, LF>>

\* FreeWiliSerial._set_menu_enabled: the Result of _write_serial is dropped;
\* an exception of the resets or of the last flush leaves the method
_set_menu_enabled(enabled, ie) ==
    IF ~ie.reset_ok
    THEN [raised |-> TRUE, wrote |-> 0, tr |-> <<Raised("reset_output_buffer")>>]
    ELSE LET wr == _write_serial(MenuCmd(enabled), ie.w)
             pre == <<Returned("reset_output_buffer"), Returned("reset_input_buffer")>>
         IN  [raised |-> ~ie.flush_ok, wrote |-> 1,
              tr |-> pre \o wr.tr \o <<(IF ie.flush_ok THEN Returned("flush") ELSE Raised("flush"))>>]

\* a guard that opens without looking at is_open
NeedsOpenEnter_AlwaysOpens(enable_menu, ge) ==
    IF ~ge.open_ok
    THEN [raised |-> TRUE, open |-> is_open, inits |-> sess_inits, menu |-> sess_menu,
          tr |-> <<Raised("open")>>]
    ELSE LET m == _set_menu_enabled(enable_menu, ge.ie)
         IN  [raised |-> m.raised, open |-> TRUE, inits |-> m.wrote,
              menu |-> IF m.wrote > 0 THEN MenuCmd(enable_menu)[1] ELSE 0,
              tr |-> <<Returned("open")>> \o m.tr]

\* a guard that initializes on every call, open transport or not
NeedsOpenEnter_Reinit(enable_menu, ge) ==
    LET m == _set_menu_enabled(enable_menu, ge.ie)
    IN  IF ~is_open /\ ~ge.open_ok
        THEN [raised |-> TRUE, open |-> FALSE, inits |-> 0, menu |-> 0,
              tr |-> <<Raised("open")>>]
        ELSE [raised |-> m.raised, open |-> TRUE,
              inits |-> (IF is_open THEN sess_inits ELSE 0) + m.wrote,
              menu |-> IF m.wrote > 0 THEN MenuCmd(enable_menu)[1]
                       ELSE IF is_open THEN sess_menu ELSE 0,
              tr |-> (IF is_open THEN <<>> ELSE <<Returned("open")>>) \o m.tr]

\* needs_open.wrapper, lines before the try: open and initialize a closed
\* transport, leave an open one alone
NeedsOpenEnter(enable_menu, ge) ==
    IF is_open
    THEN [raised |-> FALSE, open |-> TRUE, inits |-> sess_inits, menu |-> sess_menu,
          tr |-> <<>>]
    ELSE IF ~ge.open_ok
    THEN [raised |-> TRUE, open |-> FALSE, inits |-> 0, menu |-> 0, tr |-> <<Raised("open")>>]
    ELSE LET m == _set_menu_enabled(enable_menu, ge.ie)
         IN  [raised |-> m.raised, open |-> TRUE, inits |-> m.wrote,
              menu |-> IF m.wrote > 0 THEN MenuCmd(enable_menu)[1] ELSE 0,
              tr |-> <<Returned("open")>> \o m.tr]

\* the close written after the call instead of in a finally clause
NeedsOpenCloses_NoFinally(body_res) == ~stay_open /\ body_res.kind # "Raise"

\* a guard that closes whatever the stay-open policy says
NeedsOpenCloses_Always(body_res) == TRUE

\* the guard raises before the body: the body's transport calls never happen
GuardRaises(ge) == NeedsOpenEnter(FALSE, ge).raised

\* the behaviours S of a transport call that is made only when `reached`
\* holds: when the call is never made, one behaviour stands for all
EnvsIf(reached, S) == IF reached THEN S ELSE {CHOOSE x \in S : TRUE}

\* the transport behaviours a body can meet: those of S when it runs; when the
\* guard raises it meets none
BodyEnvs(ge, S) == EnvsIf(~GuardRaises(ge), S)

\* needs_open.wrapper, the finally clause: whether the transport is closed
\* after the body (it runs when the body returns and when it raises)
NeedsOpenCloses(body_res) == ~stay_open

\* needs_open.wrapper: the whole guarded call of operation `op` with `args`,
\* `body` being what the wrapped method does on the open transport
NeedsOpen(op, args, enable_menu, ge, body) ==
    LET pre == NeedsOpenEnter(enable_menu, ge)
        closes == NeedsOpenCloses(body.res)
    IN  IF pre.raised
        THEN /\ is_open' = pre.open
             /\ sess_inits' = pre.inits
             /\ sess_menu' = pre.menu
             /\ last' = [op |-> op, args |-> args, res |-> Raise("SerialException"),
                         tr |-> pre.tr, body_ran |-> FALSE, inits_at_body |-> pre.inits,
                         menu_at_body |-> pre.menu,
                         opened |-> ~is_open, was_open |-> is_open, stay |-> stay_open]
        ELSE /\ is_open' = ~closes
             /\ sess_inits' = IF closes THEN 0 ELSE pre.inits
             /\ sess_menu' = IF closes THEN 0 ELSE pre.menu
             /\ last' = [op |-> op, args |-> args, res |-> body.res,
                         tr |-> pre.tr \o body.tr
                                \o (IF closes THEN <<Returned("close")>> ELSE <<>>),
                         body_ran |-> TRUE, inits_at_body |-> pre.inits,
                         menu_at_body |-> pre.menu,
                         opened |-> ~is_open, was_open |-> is_open, stay |-> stay_open]

(***************************************************************************)
(* Inputs                                                                  *)
(***************************************************************************)
Pins == {3, 12}

\* replies to "g\n": the bytes that arrive before the read timeout
R_EMPTY == <<>>
R_1F == <<49, 70, LF>>                                        \* "1F\n"
R_0000001F == <<48, 48, 48, 48, 48, 48, 49, 70, LF>>          \* "0000001F\n"
R_LONG == <<48, 48, 48, 48, 48, 48, 49, 70, 65, 66, LF>>      \* "0000001FAB\n"
R_ZZ == <<90, 90, LF>>                                        \* "ZZ\n"
R_FF == <<255>>                                               \* b"\xff"
IoReplies == {R_EMPTY, R_1F, R_0000001F, R_LONG, R_ZZ, R_FF}
Freqs == {1000}
Duties == {50}

\* payloads of the passthrough operations: none, one segment, two segments
SpiData == {<<>>, <<171>>, <<1, 2, 3, 4, 5, 6, 7, 8, 9>>}
I2cAddrs == {80}
I2cRegs == {0}
I2cData == {<<>>, <<7>>}
I2cSizes == {2}
RadioData == {<<1>>}

\* a reply line of a passthrough segment
L_REPLY == <<48, 65, SP, 98, LF>>           \* "0A b\n"
L_FF == <<255, LF>>                         \* b"\xff\n"
\* what the transport does for one passthrough segment
PassEnvs ==
    {[w |-> W_OK, r |-> [exc |-> FALSE, data |-> L_REPLY]],
     [w |-> W_SHORT, r |-> [exc |-> FALSE, data |-> L_REPLY]],
     [w |-> W_RAISE, r |-> [exc |-> FALSE, data |-> <<>>]],
     [w |-> W_OK, r |-> [exc |-> TRUE, data |-> <<>>]],
     [w |-> W_OK, r |-> [exc |-> FALSE, data |-> L_FF]],
     [w |-> W_OK, r |-> [exc |-> FALSE, data |-> <<>>]]}

\* reply lines to "p\n", as readline() returns them before it times out
PL_HDR == <<104, 100, 114, LF>>                                 \* "hdr\n"
PL_SCAN == <<49, 48, SP, 48, 48, SP, 48, 49, SP, 48, 48, LF>>   \* "10 00 01 00\n"
PL_BLANK == <<LF>>                                              \* "\n"
PL_SCAN2 == <<50, 48, SP, 48, 49, SP, 48, 48, SP, 48, 49, LF>>  \* "20 01 00 01\n"
PollLines ==
    {<<>>, <<PL_HDR>>, <<PL_HDR, PL_SCAN>>, <<PL_HDR, PL_BLANK>>, <<PL_HDR, L_FF>>,
     <<PL_SCAN, PL_SCAN>>, <<L_FF, PL_SCAN2, PL_SCAN>>}
\* a stream read to its end: the items that arrive, then a read that returns
\* nothing (timeout) or raises SerialException
StreamEnvs(streams) == [data : streams, end_exc : BOOLEAN]

\* file names on the device
Names == {<<84>>}                                               \* "T"
\* output of a script or of the FPGA loader
Outputs == {<<>>, <<79, 75>>, <<79, 255>>}                      \* "", "OK", b"O\xff"

\* local files: their bytes
MaxFileLen == 2
FileBytes == {65, 200}
Files == UNION {[1..n -> FileBytes] : n \in 0..MaxFileLen}
\* content of a file on the device, as read_all() returns it
DeviceData == {<<>>, <<72, 105>>}

\* boot banners, as read_all() returns them
BN_MAIN ==
    <<77, 97, 105, 110, 32, 80, 114, 111, 99, 101, 115, 115, 111, 114, 32, 65, 112, 112, 32, 118, 101, 114, 115, 105, 111, 110, 32, 49, 50, 13, 10>>
    \* 'Main Processor App version 12\r\n'
BN_DISPLAY ==
    <<98, 111, 111, 116, 10, 68, 105, 115, 112, 108, 97, 121, 32, 80, 114, 111, 99, 101, 115, 115, 111, 114, 32, 65, 112, 112, 32, 118, 101, 114, 115, 105, 111, 110, 32, 55, 10>>
    \* 'boot\nDisplay Processor App version 7\n'
BN_JUNK ==
    <<104, 101, 108, 108, 111, 10>>
    \* 'hello\n'
BN_NO_NUMBER ==
    <<77, 97, 105, 110, 32, 68, 105, 115, 112, 108, 97, 121, 32, 77, 97, 105, 110, 32, 80, 114, 111, 99, 101, 115, 115, 111, 114, 10>>
    \* 'Main Display Main Processor\n'
BN_FOUR ==
    <<77, 97, 105, 110, 32, 80, 114, 111, 99, 101, 115, 115, 111, 114, 32, 65, 112, 112, 32, 118, 101, 114, 115, 105, 111, 110, 32, 49, 46, 50, 10>>
    \* 'Main Processor App version 1.2\n'
BN_FF == <<77, 255>>
Banners == {BN_MAIN, BN_DISPLAY, BN_JUNK, BN_NO_NUMBER, BN_FOUR, BN_FF}
\* what the transport does during get_app_info: no byte arrives within the
\* timeout, in_waiting or read_all() raises, or a banner is read
AppInfoEnvs ==
    {[wait |-> "timeout", data |-> <<>>], [wait |-> "raise", data |-> <<>>],
     [wait |-> "read_raise", data |-> <<>>]}
    \cup [wait : {"data"}, data : Banners]

\* a read of the transport: the bytes that arrive, or a SerialException
ReadEnvs(replies) == [exc : {FALSE}, data : replies] \cup {[exc |-> TRUE, data |-> <<>>]}

(***************************************************************************)
(* Operations                                                              *)
(***************************************************************************)
B(b) == IF b THEN 1 ELSE 0

\* a command without the line end after the letter
set_io_body_NoLineEnd(io, high, w) ==
    _write_serial(<<IF high THEN CH_h ELSE CH_l>> \o Dec(io) \o <<LF>>, w)

\* FreeWiliSerial.set_io (body)
set_io_body(io, high, w) ==
    _write_serial(<<IF high THEN CH_h ELSE CH_l, LF>> \o Dec(io) \o <<LF>>, w)

set_io ==
    \E io \in Pins, high \in BOOLEAN, ge \in GuardEnvsNow :
      \E w \in BodyEnvs(ge, WriteEnvs) :
        /\ NeedsOpen("set_io", << <<io>>, <<B(high)>> >>, FALSE, ge, set_io_body(io, high, w))
        /\ UNCHANGED <<stay_open, in_with, baudrate, ckvars, favars, pt_call>>

(***************************************************************************)
(* Text helpers: bytes.decode, str.strip, int(s, 16)                       *)
(***************************************************************************)
\* bytes.decode() succeeds: no byte outside ASCII (the inputs hold no
\* well-formed multi-byte UTF-8 sequence, which would decode too)
Decodable(data) == \A i \in 1..Len(data) : data[i] < 128

IsSpace(c) == c \in {9, 10, 11, 12, 13, 28, 29, 30, 31, 32}

RECURSIVE LStrip(_)
LStrip(s) == IF s # <<>> /\ IsSpace(Head(s)) THEN LStrip(Tail(s)) ELSE s

RECURSIVE RStrip(_)
RStrip(s) ==
    IF s # <<>> /\ IsSpace(s[Len(s)]) THEN RStrip(SubSeq(s, 1, Len(s) - 1)) ELSE s

Strip(s) == RStrip(LStrip(s))

IsHexDigit(c) == (c >= 48 /\ c <= 57) \/ (c >= 65 /\ c <= 70) \/ (c >= 97 /\ c <= 102)

HexDigitVal(c) == IF c <= 57 THEN c - 48 ELSE IF c <= 70 THEN c - 55 ELSE c - 87

RECURSIVE HexVal(_)
HexVal(s) ==
    IF s = <<>> THEN 0 ELSE 16 * HexVal(SubSeq(s, 1, Len(s) - 1)) + HexDigitVal(s[Len(s)])

\* int(s, 16) accepts s: a non-empty run of hex digits (the inputs hold no
\* sign, "0x" prefix or underscore, which int() accepts as well)
IsHexInt(s) == s # <<>> /\ \A i \in 1..Len(s) : IsHexDigit(s[i])

\* serial.Serial.read(size): at most `size` of the bytes that arrive
ReadN(arrived, size) == SubSeq(arrived, 1, Min(size, Len(arrived)))

\* the number of bytes get_all_io asks for: (4 * 2) + 1
IO_REPLY_SIZE == 9

\* FreeWiliSerial.get_all_io (body)
get_all_io_body(w, r) ==
    LET wr == _write_serial(<<CH_g, LF>>, w)
        data == ReadN(r.data, IO_REPLY_SIZE)
        rd == <<Ev("read", data, IO_REPLY_SIZE)>>
    IN  IF wr.res.kind = "Err"
        THEN [res |-> Err(wr.res.tag, wr.res.val), tr |-> wr.tr]
        ELSE IF r.exc
        THEN [res |-> Err("SerialException", <<>>),
              tr |-> wr.tr \o <<Raised("read")>>]
        ELSE IF ~Decodable(data)
        THEN [res |-> Raise("UnicodeDecodeError"), tr |-> wr.tr \o rd]
        ELSE IF ~IsHexInt(Strip(data))
        THEN [res |-> Raise("ValueError"), tr |-> wr.tr \o rd]
        ELSE [res |-> Ok("int", <<HexVal(Strip(data))>>), tr |-> wr.tr \o rd]

get_all_io ==
    \E ge \in GuardEnvsNow :
      \E w \in BodyEnvs(ge, WriteEnvs) :
      \E r \in EnvsIf(~GuardRaises(ge) /\ w = W_OK, ReadEnvs(IoReplies)) :
        /\ NeedsOpen("get_all_io", << r.data >>, FALSE, ge, get_all_io_body(w, r))
        /\ UNCHANGED <<stay_open, in_with, baudrate, ckvars, favars, pt_call>>

\* FreeWiliSerial.generate_pwm (body)
generate_pwm_body(io, freq, duty, w) ==
    _write_serial(<<CH_o, LF>> \o Dec(io) \o <<SP>> \o Dec(freq) \o <<SP>> \o Dec(duty)
                  \o <<LF>>, w)

generate_pwm ==
    \E io \in Pins, freq \in Freqs, duty \in Duties, ge \in GuardEnvsNow :
      \E w \in BodyEnvs(ge, WriteEnvs) :
        /\ NeedsOpen("generate_pwm", << <<io>>, <<freq>>, <<duty>> >>, FALSE, ge,
                     generate_pwm_body(io, freq, duty, w))
        /\ UNCHANGED <<stay_open, in_with, baudrate, ckvars, favars, pt_call>>

(***************************************************************************)
(* Binary passthrough                                                      *)
(***************************************************************************)
\* bytes.strip(): ASCII whitespace only
IsBSpace(c) == c \in {9, 10, 11, 12, 13, 32}

RECURSIVE BLStrip(_)
BLStrip(s) == IF s # <<>> /\ IsBSpace(Head(s)) THEN BLStrip(Tail(s)) ELSE s

RECURSIVE BRStrip(_)
BRStrip(s) ==
    IF s # <<>> /\ IsBSpace(s[Len(s)]) THEN BRStrip(SubSeq(s, 1, Len(s) - 1)) ELSE s

BStrip(s) == BRStrip(BLStrip(s))

\* the letters A-F taken one place too low in the character table
HexChar_Off(d) == IF d < 10 THEN 48 + d ELSE 54 + d

HexChar(d) == IF d < 10 THEN 48 + d ELSE 55 + d

\* f"{b:02X}"
Hex2(b) == <<HexChar(b \div 16), HexChar(b % 16)>>

\* a rendering that loses the last byte of the segment
JoinHex_DropsLast(seg) ==
    LET n == Len(seg) - 1
    IN  [i \in 1..(IF n <= 0 THEN 0 ELSE 3 * n - 1) |->
            IF i % 3 = 0 THEN SP ELSE Hex2(seg[(i + 2) \div 3])[((i - 1) % 3) + 1]]

\* " ".join(f"{i:02X}" for i in segment)
RECURSIVE JoinHex(_)
JoinHex(seg) ==
    IF seg = <<>> THEN <<>>
    ELSE IF Len(seg) = 1 THEN Hex2(seg[1])
    ELSE Hex2(seg[1]) \o <<SP>> \o JoinHex(Tail(seg))

\* a decoder that takes every hex digit as a token of its own
HexTokens_PerDigit(s) ==
    LET digits == SelectSeq(s, LAMBDA c : IsHexDigit(c))
    IN  [i \in 1..Len(digits) |-> HexDigitVal(digits[i])]

\* [int(v, 16) for v in re.compile(r"[A-Fa-f0-9]{1,2}").findall(s)]: scanning
\* left to right, two hex digits when two follow each other, else one
RECURSIVE HexTokens(_)
HexTokens(s) ==
    IF s = <<>> THEN <<>>
    ELSE IF ~IsHexDigit(s[1]) THEN HexTokens(Tail(s))
    ELSE IF Len(s) >= 2 /\ IsHexDigit(s[2])
    THEN <<HexVal(SubSeq(s, 1, 2))>> \o HexTokens(SubSeq(s, 3, Len(s)))
    ELSE <<HexVal(<<s[1]>>)>> \o HexTokens(Tail(s))

DEFAULT_SEGMENT_SIZE == 8

\* the number of segments range(0, len(data), size) visits
NumSegments(data, size) == (Len(data) + size - 1) \div size

\* FreeWiliSerial._write_and_read_bytes_cmd, the loop from segment k on;
\* envs[k] is what the transport does for segment k, acc what was read and
\* done so far.  The count write() returns is not looked at.
RECURSIVE PassLoop(_, _, _, _, _, _)
PassLoop(command, data, size, envs, k, acc) ==
    IF (k - 1) * size >= Len(data)
    THEN [res |-> Ok("bytes", acc.bytes), tr |-> acc.tr]
    ELSE LET seg == SubSeq(data, (k - 1) * size + 1, Min(k * size, Len(data)))
             line == command \o JoinHex(seg) \o <<LF>>
             env == envs[k]
             wev == Ev("write", line, IF env.w.exc = "write" THEN -1 ELSE Accepted(line, env.w))
             read_data == BStrip(env.r.data)
         IN  IF env.w.exc = "write"
             THEN [res |-> Raise("SerialException"), tr |-> acc.tr \o <<wev>>]
             ELSE IF env.r.exc
             THEN [res |-> Raise("SerialException"),
                   tr |-> acc.tr \o <<wev, Raised("readline")>>]
             ELSE IF ~Decodable(read_data)
             THEN [res |-> Raise("UnicodeDecodeError"),
                   tr |-> acc.tr \o <<wev, Ev("readline", env.r.data, 0)>>]
             ELSE PassLoop(command, data, size, envs, k + 1,
                           [bytes |-> acc.bytes \o HexTokens(read_data),
                            tr |-> acc.tr \o <<wev, Ev("readline", env.r.data, 0)>>])

\* FreeWiliSerial._write_and_read_bytes_cmd
_write_and_read_bytes_cmd(command, data, data_segment_size, envs) ==
    PassLoop(command, data, data_segment_size, envs, 1, [bytes |-> <<>>, tr |-> <<>>])

\* the exchange of a segment ends the loop: its write or its readline
\* raises, or its reply does not decode
PassStops(env) == env.w.exc = "write" \/ env.r.exc \/ ~Decodable(BStrip(env.r.data))

\* what the transport does for the segments of `data`: one choice per segment
\* the loop reaches
PassEnvSeqs(data) ==
    {envs \in [1..NumSegments(data, DEFAULT_SEGMENT_SIZE) -> PassEnvs] :
        \A k \in 1..Len(envs) :
            (\E h \in 1..(k - 1) : PassStops(envs[h])) => envs[k] = CHOOSE x \in PassEnvs : TRUE}

\* FreeWiliSerial.read_write_spi_data
read_write_spi_data ==
    \E data \in SpiData, ge \in GuardEnvsNow :
        \E envs \in BodyEnvs(ge, PassEnvSeqs(data)) :
            /\ NeedsOpen("read_write_spi_data", << data >>, FALSE, ge,
                         _write_and_read_bytes_cmd(<<CH_s, LF>>, data,
                                                   DEFAULT_SEGMENT_SIZE, envs))
            /\ UNCHANGED <<stay_open, in_with, baudrate, ckvars, favars, pt_call>>

\* FreeWiliSerial.write_i2c
write_i2c ==
    \E address \in I2cAddrs, register \in I2cRegs, data \in I2cData, ge \in GuardEnvsNow :
        \E envs \in BodyEnvs(ge, PassEnvSeqs(<<address, register>> \o data)) :
            /\ NeedsOpen("write_i2c", << <<address>>, <<register>>, data >>, FALSE, ge,
                         _write_and_read_bytes_cmd(<<CH_i, LF>>, <<address, register>> \o data,
                                                   DEFAULT_SEGMENT_SIZE, envs))
            /\ UNCHANGED <<stay_open, in_with, baudrate, ckvars, favars, pt_call>>

\* FreeWiliSerial.read_i2c
read_i2c ==
    \E address \in I2cAddrs, register \in I2cRegs, data_size \in I2cSizes,
       ge \in GuardEnvsNow :
        \E envs \in BodyEnvs(ge, PassEnvSeqs(<<address, register, data_size>>)) :
            /\ NeedsOpen("read_i2c", << <<address>>, <<register>>, <<data_size>> >>, FALSE, ge,
                         _write_and_read_bytes_cmd(<<CH_i, LF>>,
                                                   <<address, register, data_size>>,
                                                   DEFAULT_SEGMENT_SIZE, envs))
            /\ UNCHANGED <<stay_open, in_with, baudrate, ckvars, favars, pt_call>>

\* FreeWiliSerial.write_radio
write_radio ==
    \E data \in RadioData, ge \in GuardEnvsNow :
        \E envs \in BodyEnvs(ge, PassEnvSeqs(data)) :
            /\ NeedsOpen("write_radio", << data >>, FALSE, ge,
                         _write_and_read_bytes_cmd(<<CH_t, LF>>, data,
                                                   DEFAULT_SEGMENT_SIZE, envs))
            /\ UNCHANGED <<stay_open, in_with, baudrate, ckvars, favars, pt_call>>

\* FreeWiliSerial.read_radio
read_radio ==
    \E data \in RadioData, ge \in GuardEnvsNow :
        \E envs \in BodyEnvs(ge, PassEnvSeqs(data)) :
            /\ NeedsOpen("read_radio", << data >>, FALSE, ge,
                         _write_and_read_bytes_cmd(<<CH_k, LF>>, data,
                                                   DEFAULT_SEGMENT_SIZE, envs))
            /\ UNCHANGED <<stay_open, in_with, baudrate, ckvars, favars, pt_call>>

\* FreeWiliSerial.write_uart
write_uart ==
    \E data \in RadioData, ge \in GuardEnvsNow :
        \E envs \in BodyEnvs(ge, PassEnvSeqs(data)) :
            /\ NeedsOpen("write_uart", << data >>, FALSE, ge,
                         _write_and_read_bytes_cmd(<<CH_u, LF>>, data,
                                                   DEFAULT_SEGMENT_SIZE, envs))
            /\ UNCHANGED <<stay_open, in_with, baudrate, ckvars, favars, pt_call>>

\* poll_i2c._process_line
_process_line(line) == HexTokens(line)

\* the offsets counted from one instead of from zero
FoundAddresses_OneBased(addr_un, rest, addr_ln) ==
    LET hits == SelectSeq([k \in 1..Len(rest) |-> k], LAMBDA k : rest[k] # 0)
    IN  [h \in 1..Len(hits) |-> addr_un + addr_ln + hits[h]]

\* [addr_un + addr_ln for addr_ln, found in enumerate(addresses[1:]) if found != 0]
RECURSIVE FoundAddresses(_, _, _)
FoundAddresses(addr_un, rest, addr_ln) ==
    IF rest = <<>> THEN <<>>
    ELSE (IF Head(rest) # 0 THEN <<addr_un + addr_ln>> ELSE <<>>)
         \o FoundAddresses(addr_un, Tail(rest), addr_ln + 1)

\* FreeWiliSerial.poll_i2c, the readline loop from line k on
RECURSIVE PollLoop(_, _, _, _)
PollLoop(env, k, first_line_processed, acc) ==
    IF k > Len(env.data)
    THEN IF env.end_exc
         THEN [res |-> Raise("SerialException"), tr |-> acc.tr \o <<Raised("readline")>>]
         ELSE [res |-> Ok("tuple", acc.found), tr |-> acc.tr \o <<Ev("readline", <<>>, 0)>>]
    ELSE LET line == env.data[k]
             tr == acc.tr \o <<Ev("readline", line, 0)>>
             addresses == _process_line(Strip(line))
         IN  IF ~first_line_processed
             THEN PollLoop(env, k + 1, TRUE, [found |-> acc.found, tr |-> tr])
             ELSE IF ~Decodable(line)
             THEN [res |-> Raise("UnicodeDecodeError"), tr |-> tr]
             ELSE IF addresses = <<>>
             THEN [res |-> Raise("IndexError"), tr |-> tr]
             ELSE PollLoop(env, k + 1, TRUE,
                           [found |-> acc.found
                                      \o FoundAddresses(addresses[1], Tail(addresses), 0),
                            tr |-> tr])

\* FreeWiliSerial.poll_i2c (body)
poll_i2c_body(w, env) ==
    LET wr == _write_serial(<<CH_p, LF>>, w)
        lp == PollLoop(env, 1, FALSE, [found |-> <<>>, tr |-> <<>>])
    IN  IF wr.res.kind = "Err"
        THEN [res |-> Err(wr.res.tag, wr.res.val), tr |-> wr.tr]
        ELSE [res |-> lp.res, tr |-> wr.tr \o lp.tr]

poll_i2c ==
    \E ge \in GuardEnvsNow :
      \E w \in BodyEnvs(ge, WriteEnvs) :
      \E env \in EnvsIf(~GuardRaises(ge) /\ w = W_OK, StreamEnvs(PollLines)) :
        /\ NeedsOpen("poll_i2c", env.data, FALSE, ge, poll_i2c_body(w, env))
        /\ UNCHANGED <<stay_open, in_with, baudrate, ckvars, favars, pt_call>>

\* the loop `while byte := self._serial.read(1)` of run_script and
\* load_fpga_from_file, from byte k on: each byte is decoded on its own
RECURSIVE ReadTextLoop(_, _, _)
ReadTextLoop(env, k, acc) ==
    IF k > Len(env.data)
    THEN IF env.end_exc
         THEN [res |-> Raise("SerialException"), tr |-> acc.tr \o <<Raised("read")>>]
         ELSE [res |-> Ok("str", acc.text), tr |-> acc.tr \o <<Ev("read", <<>>, 1)>>]
    ELSE LET byte == <<env.data[k]>>
             tr == acc.tr \o <<Ev("read", byte, 1)>>
         IN  IF ~Decodable(byte)
             THEN [res |-> Raise("UnicodeDecodeError"), tr |-> tr]
             ELSE ReadTextLoop(env, k + 1, [text |-> acc.text \o byte, tr |-> tr])

\* FreeWiliSerial.run_script and FreeWiliSerial.load_fpga_from_file (bodies):
\* the command letter, the file name, then the output read to its end
file_cmd_body(letter, file_name, w, env) ==
    LET wr == _write_serial(<<letter, LF>> \o file_name \o <<LF>>, w)
        lp == ReadTextLoop(env, 1, [text |-> <<>>, tr |-> <<>>])
    IN  IF wr.res.kind = "Err"
        THEN [res |-> Err(wr.res.tag, wr.res.val), tr |-> wr.tr]
        ELSE [res |-> lp.res, tr |-> wr.tr \o lp.tr]

run_script ==
    \E file_name \in Names, ge \in GuardEnvsNow :
      \E w \in BodyEnvs(ge, WriteEnvs) :
      \E env \in EnvsIf(~GuardRaises(ge) /\ w = W_OK, StreamEnvs(Outputs)) :
        /\ NeedsOpen("run_script", << file_name, env.data >>, FALSE, ge,
                     file_cmd_body(CH_w, file_name, w, env))
        /\ UNCHANGED <<stay_open, in_with, baudrate, ckvars, favars, pt_call>>

load_fpga_from_file ==
    \E file_name \in Names, ge \in GuardEnvsNow :
      \E w \in BodyEnvs(ge, WriteEnvs) :
      \E env \in EnvsIf(~GuardRaises(ge) /\ w = W_OK, StreamEnvs(Outputs)) :
        /\ NeedsOpen("load_fpga_from_file", << file_name, env.data >>, FALSE, ge,
                     file_cmd_body(CH_m, file_name, w, env))
        /\ UNCHANGED <<stay_open, in_with, baudrate, ckvars, favars, pt_call>>

(***************************************************************************)
(* File transfer                                                           *)
(***************************************************************************)
RECURSIVE BitAnd(_, _)
BitAnd(a, b) ==
    IF a = 0 \/ b = 0 THEN 0 ELSE (a % 2) * (b % 2) + 2 * BitAnd(a \div 2, b \div 2)

RECURSIVE BitXor(_, _)
BitXor(a, b) ==
    IF a = 0 THEN b
    ELSE IF b = 0 THEN a
    ELSE ((a + b) % 2) + 2 * BitXor(a \div 2, b \div 2)

FOLD_BIT == 32768         \* 0x8000
FOLD_XOR == 2054
MASK_24 == 16777215       \* 0xFFFFFF

\* the fold bit tested on the accumulator before the byte is added
ChecksumStep_TestBeforeAdd(acc, byte) ==
    LET folded == IF BitAnd(acc, FOLD_BIT) # 0 THEN BitXor(acc + byte, FOLD_XOR)
                  ELSE acc + byte
    IN  BitAnd(folded, MASK_24)

\* a sum that is never folded
ChecksumStep_NoFold(acc, byte) == BitAnd(acc + byte, MASK_24)

\* the fold taken one bit too early
ChecksumStep_FoldBit14(acc, byte) ==
    LET added == acc + byte
        folded == IF BitAnd(added, FOLD_BIT \div 2) # 0 THEN BitXor(added, FOLD_XOR) ELSE added
    IN  BitAnd(folded, MASK_24)

\* send_file, one pass of the checksum loop:
\*   checksum += byte; if checksum & 0x8000: checksum ^= 2054; checksum &= 0xFFFFFF
ChecksumStep(acc, byte) ==
    LET added == acc + byte
        folded == IF BitAnd(added, FOLD_BIT) # 0 THEN BitXor(added, FOLD_XOR) ELSE added
    IN  BitAnd(folded, MASK_24)

\* send_file, the checksum loop over the whole file
RECURSIVE Checksum(_)
Checksum(file) ==
    IF file = <<>> THEN 0
    ELSE ChecksumStep(Checksum(SubSeq(file, 1, Len(file) - 1)), file[Len(file)])

\* the header of the protocol revision without a checksum field
SendHeader_NoChecksum(target_name, fsize, cksum) ==
    <<CH_x, LF, CH_f, LF>> \o target_name \o <<SP>> \o Dec(fsize) \o <<LF>>

\* the download header: f"x\nf\n{target_name} {fsize} {checksum}\n"
SendHeader(target_name, fsize, cksum) ==
    <<CH_x, LF, CH_f, LF>> \o target_name \o <<SP>> \o Dec(fsize) \o <<SP>> \o Dec(cksum)
    \o <<LF>>

\* what the transport does during the payload loop of send_file: every
\* write accepts its byte, or the write at offset fail_at (0-based) returns
\* 0 ("short") or raises ("raise")
PayloadEnvs(file) ==
    {[fail_at |-> -1, mode |-> "none"]}
    \cup [fail_at : 0..(Len(file) - 1), mode : {"short", "raise"}]

\* send_file, the failing pass of the payload loop at byte k (1-based): the
\* Err names the byte, decoded
PayloadFail(file, pe, k, tr) ==
    IF pe.mode = "raise"
    THEN [res |-> Raise("SerialException"), tr |-> tr \o <<Ev("write", <<file[k]>>, -1)>>]
    ELSE IF ~Decodable(<<file[k]>>)
    THEN [res |-> Raise("UnicodeDecodeError"), tr |-> tr \o <<Ev("write", <<file[k]>>, 0)>>]
    ELSE [res |-> Err("Failed to write", <<file[k]>>),
          tr |-> tr \o <<Ev("write", <<file[k]>>, 0)>>]

\* send_file, the payload loop from byte k (1-based) on
RECURSIVE PayloadLoop(_, _, _, _)
PayloadLoop(file, pe, k, tr) ==
    IF k > Len(file)
    THEN [res |-> Ok("Downloaded", <<Len(file)>>), tr |-> tr]
    ELSE IF pe.fail_at = k - 1
    THEN PayloadFail(file, pe, k, tr)
    ELSE PayloadLoop(file, pe, k + 1, tr \o <<Ev("write", <<file[k]>>, 1)>>)

\* FreeWiliSerial.send_file (body) for an existing file
send_file_body(file, target_name, read_all_ok, w, pe) ==
    LET fsize == Len(file)
        cksum == Checksum(file)
        ra == <<(IF read_all_ok THEN Returned("read_all") ELSE Raised("read_all"))>>
        wr == _write_serial(SendHeader(target_name, fsize, cksum), w)
        lp == PayloadLoop(file, pe, 1, <<>>)
    IN  IF ~read_all_ok
        THEN [res |-> Raise("SerialException"), tr |-> ra]
        ELSE IF wr.res.kind = "Err"
        THEN [res |-> Err(wr.res.tag, wr.res.val), tr |-> ra \o wr.tr]
        ELSE [res |-> lp.res, tr |-> ra \o wr.tr \o lp.tr]

\* what the transport does during send_file
SendEnvs(file) ==
    {[read_all_ok |-> FALSE, w |-> W_OK, pe |-> [fail_at |-> -1, mode |-> "none"]]}
    \cup [read_all_ok : {TRUE}, w : WriteEnvs \ {W_OK},
          pe : {[fail_at |-> -1, mode |-> "none"]}]
    \cup [read_all_ok : {TRUE}, w : {W_OK}, pe : PayloadEnvs(file)]

send_file ==
    \E file \in Files, target_name \in Names, ge \in GuardEnvsNow :
      \E env \in BodyEnvs(ge, SendEnvs(file)) :
        /\ NeedsOpen("send_file", << file, target_name, <<1>> >>, FALSE, ge,
                     send_file_body(file, target_name, env.read_all_ok, env.w, env.pe))
        /\ UNCHANGED <<stay_open, in_with, baudrate, ckvars, favars, pt_call>>

\* FreeWiliSerial.send_file when source_file does not exist
send_file_missing ==
    \E target_name \in Names, ge \in GuardEnvsNow :
        /\ NeedsOpen("send_file", << <<>>, target_name, <<0>> >>, FALSE, ge,
                     [res |-> Err("does not exist", <<>>), tr |-> <<>>])
        /\ UNCHANGED <<stay_open, in_with, baudrate, ckvars, favars, pt_call>>

\* FreeWiliSerial.get_file (body)
get_file_body(source_file, read_all_ok, w, r) ==
    LET ra == <<(IF read_all_ok THEN Returned("read_all") ELSE Raised("read_all"))>>
        wr == _write_serial(<<CH_x, LF, CH_u, LF>> \o source_file \o <<LF>>, w)
    IN  IF ~read_all_ok
        THEN [res |-> Raise("SerialException"), tr |-> ra]
        ELSE IF wr.res.kind = "Err"
        THEN [res |-> Err(wr.res.tag, wr.res.val), tr |-> ra \o wr.tr]
        ELSE IF r.exc
        THEN [res |-> Raise("SerialException"),
              tr |-> ra \o wr.tr \o <<Raised("read_all")>>]
        ELSE [res |-> Ok("bytes", r.data), tr |-> ra \o wr.tr \o <<Ev("read_all", r.data, 0)>>]

get_file ==
    \E source_file \in Names, ge \in GuardEnvsNow :
      \E read_all_ok \in BodyEnvs(ge, BOOLEAN) :
      \E w \in EnvsIf(~GuardRaises(ge) /\ read_all_ok, WriteEnvs) :
      \E r \in EnvsIf(~GuardRaises(ge) /\ read_all_ok /\ w = W_OK, ReadEnvs(DeviceData)) :
        /\ NeedsOpen("get_file", << source_file, r.data >>, FALSE, ge,
                     get_file_body(source_file, read_all_ok, w, r))
        /\ UNCHANGED <<stay_open, in_with, baudrate, ckvars, favars, pt_call>>

(***************************************************************************)
(* Banner parsing                                                          *)
(***************************************************************************)
\* FreeWiliProcessorType: enum.auto() numbers the members from 1
Unknown == 1
Main == 2
Display == 3

T_Main == <<77, 97, 105, 110>>
T_Display == <<68, 105, 115, 112, 108, 97, 121>>
T_AppVersion == <<65, 112, 112, 32, 118, 101, 114, 115, 105, 111, 110>>
T_Processor == <<80, 114, 111, 99, 101, 115, 115, 111, 114>>

\* the characters str.splitlines() breaks a line at (of those below 128)
IsLineBreak(c) == c \in {10, 11, 12, 13, 28, 29, 30}

\* str.splitlines(): "\r\n" is one break; no empty last line
RECURSIVE SplitLines(_)
SplitLines(s) ==
    IF s = <<>> THEN <<>>
    ELSE IF \A i \in 1..Len(s) : ~IsLineBreak(s[i]) THEN <<s>>
    ELSE LET i == CHOOSE j \in 1..Len(s) :
                      IsLineBreak(s[j]) /\ \A h \in 1..(j - 1) : ~IsLineBreak(s[h])
             skip == IF s[i] = 13 /\ i < Len(s) /\ s[i + 1] = 10 THEN 2 ELSE 1
         IN  <<SubSeq(s, 1, i - 1)>> \o SplitLines(SubSeq(s, i + skip, Len(s)))

StartsWith(s, i, pat) ==
    i + Len(pat) - 1 <= Len(s) /\ SubSeq(s, i, i + Len(pat) - 1) = pat

\* `pat in s`
Contains(s, pat) == \E i \in 1..Len(s) : StartsWith(s, i, pat)

IsDigit(c) == c >= 48 /\ c <= 57

\* the length of the run of digits of s that starts at i
RECURSIVE DigitRun(_, _)
DigitRun(s, i) == IF i <= Len(s) /\ IsDigit(s[i]) THEN 1 + DigitRun(s, i + 1) ELSE 0

\* re.compile(r"(?:Main|Display)|(?:App version)|(?:\d+)").findall(s), from
\* position i on: at each position the first alternative that matches
RECURSIVE BannerTokens(_, _)
BannerTokens(s, i) ==
    IF i > Len(s) THEN <<>>
    ELSE IF StartsWith(s, i, T_Main) THEN <<T_Main>> \o BannerTokens(s, i + Len(T_Main))
    ELSE IF StartsWith(s, i, T_Display)
    THEN <<T_Display>> \o BannerTokens(s, i + Len(T_Display))
    ELSE IF StartsWith(s, i, T_AppVersion)
    THEN <<T_AppVersion>> \o BannerTokens(s, i + Len(T_AppVersion))
    ELSE IF IsDigit(s[i])
    THEN <<SubSeq(s, i, i + DigitRun(s, i) - 1)>> \o BannerTokens(s, i + DigitRun(s, i))
    ELSE BannerTokens(s, i + 1)

\* int(s) accepts s: a non-empty run of digits (the banners hold no sign,
\* blank or underscore next to a number)
IsInt(s) == s # <<>> /\ \A i \in 1..Len(s) : IsDigit(s[i])

RECURSIVE IntVal(_)
IntVal(s) == IF s = <<>> THEN 0 ELSE 10 * IntVal(SubSeq(s, 1, Len(s) - 1)) + (s[Len(s)] - 48)

\* get_app_info: the line the loop `for line in ...: if "Processor" in line:
\* break` leaves in `line`: the first with "Processor", else the last, else ""
RECURSIVE PickLine(_)
PickLine(lines) ==
    IF lines = <<>> THEN <<>>
    ELSE IF Contains(Head(lines), T_Processor) \/ Len(lines) = 1 THEN Head(lines)
    ELSE PickLine(Tail(lines))

\* FreeWiliSerial.get_app_info, from data.decode() on
ParseBanner(data) ==
    LET results == BannerTokens(PickLine(SplitLines(data)), 1)
    IN  IF ~Decodable(data) THEN Raise("UnicodeDecodeError")
        ELSE IF Len(results) # 3 THEN Ok("FreeWiliAppInfo", <<Unknown, 0>>)
        ELSE IF Contains(results[1], T_Main)
        THEN IF IsInt(results[3]) THEN Ok("FreeWiliAppInfo", <<Main, IntVal(results[3])>>)
             ELSE Raise("ValueError")
        ELSE IF Contains(results[1], T_Display)
        THEN IF IsInt(results[3]) THEN Ok("FreeWiliAppInfo", <<Display, IntVal(results[3])>>)
             ELSE Raise("ValueError")
        ELSE Ok("FreeWiliAppInfo", <<Unknown, 0>>)

\* FreeWiliSerial.get_app_info (body), with _wait_for_serial_data
get_app_info_body(env) ==
    IF env.wait = "timeout"
    THEN [res |-> Raise("TimeoutError"), tr |-> <<Returned("in_waiting")>>]
    ELSE IF env.wait = "raise"
    THEN [res |-> Raise("SerialException"), tr |-> <<Raised("in_waiting")>>]
    ELSE IF env.wait = "read_raise"
    THEN [res |-> Raise("SerialException"),
          tr |-> <<Returned("in_waiting"), Raised("read_all")>>]
    ELSE [res |-> ParseBanner(env.data),
          tr |-> <<Returned("in_waiting"), Ev("read_all", env.data, 0)>>]

get_app_info ==
    \E ge \in GuardEnvsNow :
      \E env \in BodyEnvs(ge, AppInfoEnvs) :
        /\ NeedsOpen("get_app_info", << env.data >>, TRUE, ge, get_app_info_body(env))
        /\ UNCHANGED <<stay_open, in_with, baudrate, ckvars, favars, pt_call>>

\* the baud rate that asks the device to jump to its bootloader
BOOTLOADER_BAUDRATE == 1200

\* what the transport does during reset_to_uf2_bootloader: nothing goes
\* wrong, or the call named by `fails` raises SerialException; a close that
\* raises leaves the transport open or closed (left_open); the baudrate setter
\* reconfigures an open port, which succeeds or raises (reconf_ok)
ResetEnvs ==
    {[fails |-> "none", left_open |-> FALSE, reconf_ok |-> TRUE],
     [fails |-> "open", left_open |-> FALSE, reconf_ok |-> TRUE]}
    \cup [fails : {"close2"} \cup (IF is_open THEN {"close"} ELSE {}),
          left_open : {FALSE}, reconf_ok : {TRUE}]
    \cup [fails : {"close2"} \cup (IF is_open THEN {"close"} ELSE {}),
          left_open : {TRUE}, reconf_ok : BOOLEAN]

\* a restore written after the sequence instead of in a finally clause
RestoredBaudrate_OnSuccess(original_baudrate, res) ==
    IF res.kind = "Ok" THEN original_baudrate ELSE BOOTLOADER_BAUDRATE

\* reset_to_uf2_bootloader, the finally clause: the value written back to
\* self._serial.baudrate, however the try block ended
RestoredBaudrate(original_baudrate, res) == original_baudrate

\* a reset that forgets the close after the 1200-baud open
reset_try_NoClose(env) ==
    LET set1200 == Ev("baudrate", <<>>, BOOTLOADER_BAUDRATE)
        head == IF is_open THEN <<Returned("close")>> ELSE <<>>
    IN  IF env.fails = "open"
        THEN [res |-> Err("str", <<>>), tr |-> head \o <<set1200, Raised("open")>>,
              open |-> FALSE, same_session |-> FALSE]
        ELSE [res |-> Ok("None", <<>>), tr |-> head \o <<set1200, Returned("open")>>,
              open |-> TRUE, same_session |-> FALSE]

\* reset_to_uf2_bootloader, the try block with its except clause: how it
\* ends, the transport calls it makes, and whether the transport is open after
reset_try(env) ==
    LET set1200 == Ev("baudrate", <<>>, BOOTLOADER_BAUDRATE)
        head == IF is_open THEN <<Returned("close")>> ELSE <<>>
    IN  IF is_open /\ env.fails = "close"
        THEN [res |-> Err("str", <<>>), tr |-> <<Raised("close")>>, open |-> env.left_open,
              same_session |-> TRUE]
        ELSE IF env.fails = "open"
        THEN [res |-> Err("str", <<>>), tr |-> head \o <<set1200, Raised("open")>>,
              open |-> FALSE, same_session |-> FALSE]
        ELSE IF env.fails = "close2"
        THEN [res |-> Err("str", <<>>),
              tr |-> head \o <<set1200, Returned("open"), Raised("close")>>,
              open |-> env.left_open, same_session |-> FALSE]
        ELSE [res |-> Ok("None", <<>>),
              tr |-> head \o <<set1200, Returned("open"), Returned("close")>>,
              open |-> FALSE, same_session |-> FALSE]

\* FreeWiliSerial.reset_to_uf2_bootloader (not wrapped by the guard).  The
\* baudrate setter of pyserial stores the value first and then reconfigures
\* the port when it is open; an exception of that leaves the finally clause.
reset_to_uf2_bootloader ==
    \E env \in ResetEnvs :
        LET original_baudrate == baudrate
            t == reset_try(env)
            restored == RestoredBaudrate(original_baudrate, t.res)
            reconf_raises == t.open /\ ~env.reconf_ok
        IN  /\ baudrate' = restored
            /\ is_open' = t.open
            /\ sess_inits' = IF t.open /\ t.same_session THEN sess_inits ELSE 0
            /\ sess_menu' = IF t.open /\ t.same_session THEN sess_menu ELSE 0
            /\ last' = [op |-> "reset_to_uf2_bootloader", args |-> <<>>,
                        res |-> IF reconf_raises THEN Raise("SerialException") ELSE t.res,
                        tr |-> t.tr \o <<Ev("baudrate", <<>>, restored)>>
                               \o (IF reconf_raises THEN <<Raised("reconfigure")>> ELSE <<>>),
                        body_ran |-> FALSE, inits_at_body |-> sess_inits,
                        opened |-> HasOpen(t.tr), was_open |-> is_open, stay |-> stay_open]
            /\ UNCHANGED <<stay_open, in_with, ckvars, favars, pt_call>>

\* FreeWiliSerial.enable_stream
enable_stream ==
    \E enable \in BOOLEAN, ge \in GuardEnvsNow :
        /\ NeedsOpen("enable_stream", << <<B(enable)>> >>, FALSE, ge,
                     [res |-> Raise("NotImplementedError"), tr |-> <<>>])
        /\ UNCHANGED <<stay_open, in_with, baudrate, ckvars, favars, pt_call>>

\* FreeWiliSerial.__enter__: opens a closed transport, writes nothing
__enter__ ==
    \E open_ok \in BOOLEAN :
        /\ ~in_with
        /\ is_open' = (is_open \/ open_ok)
        /\ in_with' = (is_open \/ open_ok)
        /\ sess_inits' = IF is_open THEN sess_inits ELSE 0
        /\ sess_menu' = IF is_open THEN sess_menu ELSE 0
        /\ last' = [op |-> "__enter__", args |-> <<>>,
                    res |-> IF is_open \/ open_ok THEN Ok("self", <<>>)
                            ELSE Raise("SerialException"),
                    tr |-> IF is_open THEN <<>> ELSE <<(IF open_ok THEN Returned("open") ELSE Raised("open"))>>,
                    body_ran |-> FALSE, inits_at_body |-> sess_inits,
                    opened |-> ~is_open, was_open |-> is_open, stay |-> stay_open]
        /\ UNCHANGED <<stay_open, baudrate, ckvars, favars, pt_call>>

\* FreeWiliSerial.__exit__: closes an open transport
__exit__ ==
    /\ in_with
    /\ is_open' = FALSE
    /\ in_with' = FALSE
    /\ sess_inits' = 0
    /\ sess_menu' = 0
    /\ last' = [op |-> "__exit__", args |-> <<>>, res |-> Ok("None", <<>>),
                tr |-> IF is_open THEN <<Returned("close")>> ELSE <<>>,
                body_ran |-> FALSE, inits_at_body |-> sess_inits,
                opened |-> FALSE, was_open |-> is_open, stay |-> stay_open]
    /\ UNCHANGED <<stay_open, baudrate, ckvars, favars, pt_call>>

\* FreeWiliSerial.close
close ==
    /\ is_open' = FALSE
    /\ sess_inits' = 0
    /\ sess_menu' = 0
    /\ last' = [op |-> "close", args |-> <<>>, res |-> Ok("None", <<>>),
                tr |-> IF is_open THEN <<Returned("close")>> ELSE <<>>,
                body_ran |-> FALSE, inits_at_body |-> sess_inits,
                opened |-> FALSE, was_open |-> is_open, stay |-> stay_open]
    /\ UNCHANGED <<stay_open, in_with, baudrate, ckvars, favars, pt_call>>

\* FreeWiliSerial.stay_open setter
set_stay_open ==
    \E v \in BOOLEAN :
        /\ stay_open' = v
        /\ last' = [op |-> "stay_open", args |-> << <<B(v)>> >>, res |-> Ok("None", <<>>),
                    tr |-> <<>>, body_ran |-> FALSE, inits_at_body |-> sess_inits,
                    opened |-> FALSE, was_open |-> is_open, stay |-> v]
        /\ UNCHANGED <<is_open, in_with, sess_inits, sess_menu, baudrate, ckvars, favars, pt_call>>

\* serial.Serial(None, timeout=1.0): pyserial's default baud rate
DEFAULT_BAUDRATE == 9600

\* no find_all call and no separate passthrough call is in progress
NoDiscovery ==
    /\ processor_type = 0
    /\ ports = <<>>
    /\ devices = <<>>
    /\ visited = <<>>

NoPassCall == [command |-> <<>>, data |-> <<>>, size |-> 1, replies |-> "none",
               done |-> FALSE, res |-> Ok("None", <<>>), tr |-> <<>>]

NoCall == [op |-> "__init__", args |-> <<>>, res |-> Ok("None", <<>>), tr |-> <<>>,
           body_ran |-> FALSE, inits_at_body |-> 0, opened |-> FALSE,
           was_open |-> FALSE, stay |-> FALSE]

\* FreeWiliSerial.__init__: a closed transport; stay_open as the caller passes it
Init ==
    /\ is_open = FALSE
    /\ stay_open \in BOOLEAN
    /\ in_with = FALSE
    /\ sess_inits = 0
    /\ sess_menu = 0
    /\ last = [NoCall EXCEPT !.stay = stay_open]
    /\ ck_file = [head |-> <<>>, fill |-> 0, len |-> 0]
    /\ ck_pos = 0
    /\ checksum = 0
    /\ ck_rev = 0
    /\ baudrate = DEFAULT_BAUDRATE
    /\ NoDiscovery
    /\ pt_call = NoPassCall

Next ==
    \/ __enter__
    \/ __exit__
    \/ set_io
    \/ generate_pwm
    \/ get_all_io
    \/ read_write_spi_data
    \/ write_i2c
    \/ read_i2c
    \/ write_radio
    \/ read_radio
    \/ write_uart
    \/ enable_stream
    \/ poll_i2c
    \/ run_script
    \/ load_fpga_from_file
    \/ send_file
    \/ send_file_missing
    \/ get_file
    \/ get_app_info
    \/ reset_to_uf2_bootloader
    \/ close
    \/ set_stay_open

Spec == Init /\ [][Next]_vars

(***************************************************************************)
(* The checksum loop of send_file, one byte per step.  A file is given by  *)
(* its first bytes (head), the byte that fills the rest, and its length;   *)
(* the state after k bytes is the final state for the file's first k bytes.*)
(***************************************************************************)
CkHeadLen == 2
CkShortLen == 140
CkLongLen == 65810
CkHeadBytes == {0, 128, 255}
CkFills == {250, 255}
CkHeads == UNION {[1..n -> CkHeadBytes] : n \in 0..CkHeadLen}
CkFiles ==
    [head : CkHeads, fill : CkFills, len : {CkShortLen}]
    \cup {[head |-> <<>>, fill |-> 255, len |-> CkLongLen]}

\* the byte f.read(1) returns at position i (1-based)
CkByte(f, i) == IF i <= Len(f.head) THEN f.head[i] ELSE f.fill

InitChecksum ==
    /\ is_open = FALSE
    /\ stay_open = FALSE
    /\ in_with = FALSE
    /\ sess_inits = 0
    /\ sess_menu = 0
    /\ last = NoCall
    /\ ck_file \in CkFiles
    /\ ck_pos = 0
    /\ checksum = 0
    /\ ck_rev = 0
    /\ baudrate = DEFAULT_BAUDRATE
    /\ NoDiscovery
    /\ pt_call = NoPassCall

\* send_file: `while byte := f.read(1)` and the three lines of its body
ck_read_byte ==
    /\ ck_pos < ck_file.len
    /\ checksum' = ChecksumStep(checksum, CkByte(ck_file, ck_pos + 1))
    /\ ck_pos' = ck_pos + 1
    /\ UNCHANGED <<is_open, stay_open, in_with, sess_inits, sess_menu, last, ck_file, ck_rev, baudrate,
                   favars, pt_call>>

NextChecksum == ck_read_byte

SpecChecksum == InitChecksum /\ [][NextChecksum]_vars

(***************************************************************************)
(* find_all: one step per port of comports().  Every candidate gets a      *)
(* handle of its own, constructed closed and with stay_open False, which   *)
(* is what is_open and stay_open are throughout this specification.        *)
(***************************************************************************)
RPI_VID == 11914
RPI_CDC_PID == 10
\* the product id of a port that is not the CDC interface
OTHER_PID == 3
MaxPorts == 2
PortKinds == {[vid |-> RPI_VID, pid |-> RPI_CDC_PID], [vid |-> RPI_VID, pid |-> OTHER_PID]}
PortLists == UNION {[1..n -> PortKinds] : n \in 0..MaxPorts}
\* Optional[FreeWiliProcessorType]: 0 stands for None
Filters == {0, Unknown, Main, Display}

\* needs_open.wrapper around get_app_info on a handle: how the call ends and
\* whether it leaves the transport open
GuardedAppInfo(ge, env) ==
    LET pre == NeedsOpenEnter(TRUE, ge)
        body == get_app_info_body(env)
    IN  IF pre.raised
        THEN [res |-> Raise("SerialException"), open |-> pre.open]
        ELSE [res |-> body.res, open |-> ~NeedsOpenCloses(body.res)]

\* find_all, the loop body for a port that passes the vid/pid test: the
\* handle is appended classified Unknown/0; the try block replaces its
\* app_info and pops it when the filter does not match; `except Exception`
\* swallows whatever get_app_info().unwrap() raises
find_all_visit(devs, port, call) ==
    LET appended == [port |-> port, app_info |-> <<Unknown, 0>>, open |-> call.open]
        updated == [appended EXCEPT !.app_info = call.res.val]
    IN  IF call.res.kind # "Ok"
        THEN Append(devs, appended)
        ELSE IF processor_type # 0 /\ call.res.val[1] # processor_type
        THEN devs
        ELSE Append(devs, updated)

find_all_candidate ==
    /\ ports # <<>>
    /\ Head(ports).vid = RPI_VID /\ Head(ports).pid = RPI_CDC_PID
    /\ \E ge \in GuardEnvsNow :
         \E env \in BodyEnvs(ge, AppInfoEnvs) :
           LET call == GuardedAppInfo(ge, env)
               devs == find_all_visit(devices, Len(visited) + 1, call)
           IN  /\ devices' = devs
               /\ visited' = Append(visited, [candidate |-> TRUE, res |-> call.res,
                                              kept |-> Len(devs) > Len(devices),
                                              open |-> call.open])
    /\ ports' = Tail(ports)
    /\ UNCHANGED <<is_open, stay_open, in_with, sess_inits, sess_menu, last, baudrate, ckvars,
                   processor_type, pt_call>>

\* find_all, a port that fails the vid/pid test
find_all_skip ==
    /\ ports # <<>>
    /\ ~(Head(ports).vid = RPI_VID /\ Head(ports).pid = RPI_CDC_PID)
    /\ visited' = Append(visited, [candidate |-> FALSE, res |-> Ok("None", <<>>),
                                   kept |-> FALSE, open |-> FALSE])
    /\ ports' = Tail(ports)
    /\ UNCHANGED <<is_open, stay_open, in_with, sess_inits, sess_menu, last, baudrate, ckvars,
                   processor_type, devices, pt_call>>

\* a call find_all(processor_type) with the ports comports() lists
InitFindAll ==
    /\ is_open = FALSE
    /\ stay_open = FALSE
    /\ in_with = FALSE
    /\ sess_inits = 0
    /\ sess_menu = 0
    /\ last = NoCall
    /\ ck_file = [head |-> <<>>, fill |-> 0, len |-> 0]
    /\ ck_pos = 0
    /\ checksum = 0
    /\ ck_rev = 0
    /\ baudrate = DEFAULT_BAUDRATE
    /\ processor_type \in Filters
    /\ ports \in PortLists
    /\ devices = <<>>
    /\ visited = <<>>
    /\ pt_call = NoPassCall

NextFindAll ==
    \/ find_all_candidate
    \/ find_all_skip

SpecFindAll == InitFindAll /\ [][NextFindAll]_vars

(***************************************************************************)
(* _write_and_read_bytes_cmd on its own, for payloads and segment sizes    *)
(* the public operations do not pass: one call on an open transport whose  *)
(* device answers every segment in one of a few ways.                      *)
(***************************************************************************)
MaxPassLen == 4
MaxSegSize == 3
PtBytes == {0, 10, 171, 255}
PtData == UNION {[1..n -> PtBytes] : n \in 0..MaxPassLen} \cup {<<b>> : b \in 0..255}
\* the device's answer to a segment: the segment's own hex text, the fixed
\* line "0A b", nothing before the timeout, or a line that is not UTF-8
PtReplies == {"echo", "fixed", "silent", "garbled"}

\* data[i : i + data_segment_size] of the k-th turn of the loop
Segment(data, size, k) == SubSeq(data, (k - 1) * size + 1, Min(k * size, Len(data)))

PtReply(data, size, k, replies) ==
    IF replies = "echo" THEN JoinHex(Segment(data, size, k)) \o <<LF>>
    ELSE IF replies = "fixed" THEN L_REPLY
    ELSE IF replies = "silent" THEN <<>>
    ELSE L_FF

PtEnvs(data, size, replies) ==
    [k \in 1..NumSegments(data, size) |->
        [w |-> W_OK, r |-> [exc |-> FALSE, data |-> PtReply(data, size, k, replies)]]]

InitPass ==
    /\ is_open = TRUE
    /\ stay_open = TRUE
    /\ in_with = FALSE
    /\ sess_inits = 1
    /\ sess_menu = CMD_DISABLE_MENU
    /\ last = NoCall
    /\ ck_file = [head |-> <<>>, fill |-> 0, len |-> 0]
    /\ ck_pos = 0
    /\ checksum = 0
    /\ ck_rev = 0
    /\ baudrate = DEFAULT_BAUDRATE
    /\ NoDiscovery
    /\ \E data \in PtData, size \in 1..MaxSegSize, replies \in PtReplies :
         pt_call = [NoPassCall EXCEPT !.command = <<CH_s, LF>>, !.data = data,
                                      !.size = size, !.replies = replies]

\* the call _write_and_read_bytes_cmd(command, data, data_segment_size)
pass_call ==
    /\ ~pt_call.done
    /\ LET out == _write_and_read_bytes_cmd(pt_call.command, pt_call.data, pt_call.size,
                                            PtEnvs(pt_call.data, pt_call.size,
                                                   pt_call.replies))
       IN  pt_call' = [pt_call EXCEPT !.done = TRUE, !.res = out.res, !.tr = out.tr]
    /\ UNCHANGED <<is_open, stay_open, in_with, sess_inits, sess_menu, last, baudrate, ckvars, favars>>

NextPass == pass_call

SpecPass == InitPass /\ [][NextPass]_vars

(***************************************************************************)
(* The checksum loop run twice over one file, byte by byte: once as        *)
(* send_file reads it and once over the same bytes in reverse order (the   *)
(* loop of a second call given the reversed file).                         *)
(***************************************************************************)
\* a length whose bytes cannot sum to 32768
CkPlainLen == 100
CkPairFiles == [head : CkHeads, fill : CkFills, len : {CkPlainLen, CkShortLen}]

InitChecksumPair ==
    /\ is_open = FALSE
    /\ stay_open = FALSE
    /\ in_with = FALSE
    /\ sess_inits = 0
    /\ sess_menu = 0
    /\ last = NoCall
    /\ ck_file \in CkPairFiles
    /\ ck_pos = 0
    /\ checksum = 0
    /\ ck_rev = 0
    /\ baudrate = DEFAULT_BAUDRATE
    /\ NoDiscovery
    /\ pt_call = NoPassCall

\* one pass of `while byte := f.read(1)` in each of the two runs
ck_read_pair ==
    /\ ck_pos < ck_file.len
    /\ checksum' = ChecksumStep(checksum, CkByte(ck_file, ck_pos + 1))
    /\ ck_rev' = ChecksumStep(ck_rev, CkByte(ck_file, ck_file.len - ck_pos))
    /\ ck_pos' = ck_pos + 1
    /\ UNCHANGED <<is_open, stay_open, in_with, sess_inits, sess_menu, last, ck_file, baudrate,
                   favars, pt_call>>

NextChecksumPair == ck_read_pair

SpecChecksumPair == InitChecksumPair /\ [][NextChecksumPair]_vars

(***************************************************************************)
(* Properties                                                              *)
(***************************************************************************)
\* the operations wrapped by @needs_open
GuardedOps ==
    {"set_io", "generate_pwm", "get_all_io", "read_write_spi_data", "write_i2c",
     "read_i2c", "write_radio", "read_radio", "write_uart", "enable_stream",
     "poll_i2c", "run_script", "load_fpga_from_file", "send_file", "get_file",
     "get_app_info"}

HasEvent(tr, e) == \E i \in 1..Len(tr) : tr[i].e = e

\* the last call was a guarded call whose guard opened the transport and
\* whose initialization step then raised
GuardInitRaised ==
    /\ last.op \in GuardedOps
    /\ ~last.body_ran
    /\ last.tr # <<>>
    /\ last.tr[1] = Returned("open")

\* C1: a guarded operation called with stay_open false whose body ran, to a
\* result or to an exception, has left the transport closed when it ends,
\* whatever the handle went through before.
C1_ClosedAfterBody ==
    (last.op \in GuardedOps /\ last.body_ran /\ ~last.stay) => ~is_open

\* C1 witness: the call found the transport open, its body raised, stay_open
\* was false, and the transport is closed.
C1_Witness ==
    /\ last.op \in GuardedOps /\ last.body_ran /\ ~last.stay
    /\ last.was_open /\ last.res.kind = "Raise" /\ ~is_open

\* C2 (as claimed): whenever the body of an operation runs, and so writes its
\* command bytes, exactly one initialization sequence has been written in
\* the open session before it.
C2_InitOnceBeforeCommands ==
    (last.op \in GuardedOps /\ last.body_ran) => last.inits_at_body = 1

\* C3: with stay_open true, a guarded operation that finds the transport open
\* neither opens nor initializes it and leaves it open; one that opens it
\* leaves it open; so only the first operation opens, and no guarded
\* operation closes.
C3_StayOpenReuse ==
    [][(stay_open /\ last'.op \in GuardedOps) =>
          /\ is_open => /\ is_open'
                        /\ ~HasEvent(last'.tr, "open")
                        /\ ~HasEvent(last'.tr, "reset_output_buffer")
                        /\ sess_inits' = sess_inits
          /\ HasEvent(last'.tr, "open") => ~is_open
          /\ (\E i \in 1..Len(last'.tr) : last'.tr[i] = Returned("open")) => is_open'
          /\ ~HasEvent(last'.tr, "close")]_vars

\* C3 witness: a later operation of a stay-open session, which raised, on a
\* transport that is still open and was initialized once.
C3_Witness ==
    /\ last.op \in GuardedOps /\ last.stay /\ last.was_open /\ ~in_with
    /\ last.res.kind = "Raise" /\ last.body_ran /\ is_open /\ sess_inits = 1

\* C4 (as claimed): when the guard opens the transport and the initialization
\* step raises, with stay_open false the transport is closed when the call
\* ends.
C4_ClosedAfterInitRaise ==
    (GuardInitRaised /\ ~last.stay) => ~is_open

\* C5 (as claimed): every guarded operation ends by returning Ok or Err,
\* whatever the transport does; no exception leaves the call.
C5_AlwaysOkOrErr ==
    last.op \in GuardedOps => last.res.kind \in {"Ok", "Err"}

\* a write() that returned a count below the number of bytes passed
ShortWrite(ev) == ev.e = "write" /\ ev.n >= 0 /\ ev.n < Len(ev.data)

\* C6 (as claimed): a call during which some write accepted fewer bytes than
\* requested returns a failure outcome.
C6_ShortWriteFails ==
    (last.op \in GuardedOps /\ \E i \in 1..Len(last.tr) : ShortWrite(last.tr[i]))
        => last.res.kind = "Err"

\* the read() events of the last call
Reads == SelectSeq(last.tr, LAMBDA ev : ev.e = "read")

\* C7 (as claimed): get_all_io returns Err whenever its read returns fewer
\* than 9 bytes, and returns Ok only with the value of a 9-byte reply.
C7_GetAllIoNeedsNineBytes ==
    (last.op = "get_all_io" /\ last.body_ran /\ Reads # <<>>) =>
        /\ Len(Reads[1].data) < 9 => last.res.kind = "Err"
        /\ last.res.kind = "Ok" =>
              /\ Len(Reads[1].data) = 9
              /\ last.res.val = <<HexVal(Strip(Reads[1].data))>>

\* the last call was send_file, of an existing file, and its body ran
SendRan == last.op = "send_file" /\ last.body_ran /\ last.args[3] = <<1>>

\* the write() events of the body of send_file: those after its read_all()
SendWrites ==
    LET i0 == CHOOSE i \in 1..Len(last.tr) : last.tr[i].e = "read_all"
    IN  SelectSeq(SubSeq(last.tr, i0 + 1, Len(last.tr)), LAMBDA ev : ev.e = "write")

\* the fields of a text separated by single spaces
RECURSIVE SplitSp(_)
SplitSp(s) ==
    IF \A i \in 1..Len(s) : s[i] # SP THEN <<s>>
    ELSE LET i == CHOOSE j \in 1..Len(s) : s[j] = SP /\ \A h \in 1..(j - 1) : s[h] # SP
         IN  <<SubSeq(s, 1, i - 1)>> \o SplitSp(SubSeq(s, i + 1, Len(s)))

\* a decimal numeral without sign or leading zero, and its value
IsDecimal(s) ==
    /\ s # <<>>
    /\ \A i \in 1..Len(s) : s[i] >= 48 /\ s[i] <= 57
    /\ (Len(s) > 1 => s[1] # 48)

RECURSIVE DecimalValue(_)
DecimalValue(s) ==
    IF s = <<>> THEN 0 ELSE 10 * DecimalValue(SubSeq(s, 1, Len(s) - 1)) + (s[Len(s)] - 48)

\* the header line reads "x\nf\n{name} {size} {checksum}\n" for this name,
\* size and checksum
IsHeaderOf(line, name, size, cksum) ==
    /\ Len(line) > 5
    /\ SubSeq(line, 1, 4) = <<120, 10, 102, 10>>
    /\ line[Len(line)] = 10
    /\ LET fields == SplitSp(SubSeq(line, 5, Len(line) - 1))
       IN  /\ Len(fields) = 3
           /\ fields[1] = name
           /\ IsDecimal(fields[2]) /\ DecimalValue(fields[2]) = size
           /\ IsDecimal(fields[3]) /\ DecimalValue(fields[3]) = cksum

\* the reference fold of C10, in arithmetic: add the byte; if bit 15 of the sum
\* is set, flip bits 11, 2 and 1 (XOR 2054 = 2048 + 4 + 2); keep the low 24 bits
RefFlip(s, p) == IF (s \div p) % 2 = 1 THEN s - p ELSE s + p

RefStep(acc, byte) ==
    LET s == acc + byte
        x == IF (s \div 32768) % 2 = 1 THEN RefFlip(RefFlip(RefFlip(s, 2048), 4), 2) ELSE s
    IN  x % 16777216

\* the reference fold of bytes lo..hi of f from accumulator acc, left to
\* right (split in halves, the left half first)
RECURSIVE RefRange(_, _, _, _)
RefRange(acc, f, lo, hi) ==
    IF lo > hi THEN acc
    ELSE IF lo = hi THEN RefStep(acc, CkByte(f, lo))
    ELSE LET mid == (lo + hi) \div 2
             left == RefRange(acc, f, lo, mid)
         IN  IF left >= 0 THEN RefRange(left, f, mid + 1, hi) ELSE left

RefFold(f, n) == RefRange(0, f, 1, n)

\* C8: in send_file the first write is the header line, naming the target, the
\* file's byte count and the rolling checksum of its bytes; a payload byte is
\* written only after the header was accepted whole; the payload writes are
\* the file's bytes one by one in file order; and on Ok every byte of the
\* file was written and accepted.
C8_HeaderThenPayload ==
    SendRan =>
        LET file == last.args[1]
            W == SendWrites
        IN  /\ W # <<>> =>
                  IsHeaderOf(W[1].data, last.args[2], Len(file),
                             RefFold([head |-> file, fill |-> 0, len |-> Len(file)], Len(file)))
            /\ Len(W) >= 2 => W[1].n = Len(W[1].data)
            /\ Len(W) <= 1 + Len(file)
            /\ \A j \in 2..Len(W) : W[j].data = <<file[j - 1]>>
            /\ last.res.kind = "Ok" =>
                  /\ Len(W) = 1 + Len(file)
                  /\ \A j \in 1..Len(W) : W[j].n = Len(W[j].data)

\* C8 witness: a transfer of the two bytes "A", 0xC8 that returned Ok, on a
\* transport the guard opened.
C8_Witness ==
    /\ SendRan /\ last.res.kind = "Ok" /\ last.opened
    /\ last.args[1] = <<65, 200>> /\ Len(SendWrites) = 3

\* C9 (as claimed): when the write of the payload byte at offset k returns
\* fewer bytes than requested, no later payload byte is written and the call
\* returns an Err that reports k.
C9_AbortReportsOffset ==
    SendRan =>
        LET W == SendWrites
        IN  \A j \in 2..Len(W) :
                ShortWrite(W[j]) =>
                    /\ j = Len(W)
                    /\ last.res.kind = "Err"
                    /\ last.res.val = <<j - 2>>

\* C10: after every byte the accumulator is within 24 bits and is the
\* reference step applied to the previous accumulator and the byte read; for
\* every file (up to CkShortLen bytes) it is the reference fold of the bytes
\* read so far.
C10_ChecksumIsReferenceFold ==
    /\ [](checksum \in 0..16777215)
    /\ [](ck_file.len <= CkShortLen => checksum = RefFold(ck_file, ck_pos))
    /\ [][ck_pos' = ck_pos + 1 =>
            checksum' = RefStep(checksum, CkByte(ck_file, ck_pos'))]_vars

\* C10 witness: the 65802nd byte 255 takes the folded sum to 2^24 + 240, and
\* the mask leaves 240.
C10_Witness ==
    /\ ck_file.fill = 255 /\ ck_file.head = <<>>
    /\ ck_pos = 65802 /\ checksum = 240

(***************************************************************************)
(* Discovery                                                               *)
(***************************************************************************)
\* C11: when find_all is called with a processor type, every device of the
\* returned tuple has that type, candidates whose banner query failed included
C11_FilterExcludesOtherTypes ==
    (ports = <<>> /\ processor_type # 0)
        => \A i \in 1..Len(devices) : devices[i].app_info[1] = processor_type

\* the banner query of visited candidate i ended in an exception
QueryFailed(i) == visited[i].candidate /\ visited[i].res.kind = "Raise"

\* the banner of visited candidate i was read and not recognized
QueryUnrecognized(i) ==
    visited[i].candidate /\ visited[i].res = Ok("FreeWiliAppInfo", <<Unknown, 0>>)

\* C12: within one find_all call (one filter argument) a candidate whose
\* banner query fails and one whose banner is unrecognized are both kept or
\* both dropped
C12_OneKeepOrDropPolicy ==
    \A i, j \in 1..Len(visited) :
        (QueryFailed(i) /\ QueryUnrecognized(j)) => visited[i].kept = visited[j].kept

\* a banner of the recognized shape: it decodes and holds a role token with
\* a digit somewhere after it
RecognizedShape(data) ==
    /\ Decodable(data)
    /\ \E i, j \in 1..Len(data) :
          /\ i < j
          /\ StartsWith(data, i, T_Main) \/ StartsWith(data, i, T_Display)
          /\ IsDigit(data[j])

\* C13: when the transport raises nothing, get_app_info answers Ok(Unknown, 0)
\* for every banner that has not the recognized shape, the empty banner
\* (nothing arrives within the timeout) included
C13_UnrecognizedIsUnknown ==
    (/\ last.op = "get_app_info"
     /\ last.body_ran
     /\ \A i \in 1..Len(last.tr) : last.tr[i].e \in {"in_waiting", "read_all"} => last.tr[i].n >= 0
     /\ ~HasEvent(last.tr, "read_all") \/ ~RecognizedShape(last.args[1]))
        => last.res = Ok("FreeWiliAppInfo", <<Unknown, 0>>)

(***************************************************************************)
(* The I2C bus scan                                                        *)
(***************************************************************************)
\* the value of a hex digit, of a token of one or two hex digits
RefHexDigit(c) == IF c >= 97 THEN c - 87 ELSE IF c >= 65 THEN c - 55 ELSE c - 48
RefHexToken(tok) ==
    IF Len(tok) = 1 THEN RefHexDigit(tok[1]) ELSE 16 * RefHexDigit(tok[1]) + RefHexDigit(tok[2])

\* the tokens of a reply line "10 00 01 00\n": its text without the line
\* end, split at the blanks
RefLineTokens(line) ==
    LET text == SelectSeq(line, LAMBDA c : c # LF /\ c # CR)
        toks == IF text = <<>> THEN <<>> ELSE SplitSp(text)
    IN  [i \in 1..Len(toks) |-> RefHexToken(toks[i])]

\* base + k for every nonzero token at position k (from 0) after the base,
\* positions from k on
RECURSIVE RefOffsets(_, _)
RefOffsets(toks, k) ==
    IF k + 2 > Len(toks) THEN <<>>
    ELSE (IF toks[k + 2] # 0 THEN <<toks[1] + k>> ELSE <<>>) \o RefOffsets(toks, k + 1)

\* the addresses of the lines from line i on
RECURSIVE RefPoll(_, _)
RefPoll(lines, i) ==
    IF i > Len(lines) THEN <<>>
    ELSE RefOffsets(RefLineTokens(lines[i]), 0) \o RefPoll(lines, i + 1)

\* C14: poll_i2c discards the first reply line whatever it holds and, for
\* every later line in arrival order, adds base + k for each nonzero token
\* at position k after the base; ["header", "10 00 01 00"] gives (0x11)
C14_PollBaseOffset ==
    (last.op = "poll_i2c" /\ last.body_ran /\ last.res.kind = "Ok")
        => last.res.val = RefPoll(last.args, 2)

\* a scan of three lines whose first line does not even decode: the two later
\* lines give 0x20, 0x22 and 0x11, in that order
C14_Witness ==
    /\ last.op = "poll_i2c"
    /\ last.args = <<L_FF, PL_SCAN2, PL_SCAN>>
    /\ last.res = Ok("tuple", <<32, 34, 17>>)

(***************************************************************************)
(* Binary passthrough                                                      *)
(***************************************************************************)
PassWrites == SelectSeq(pt_call.tr, LAMBDA ev : ev.e = "write")
PassReads == SelectSeq(pt_call.tr, LAMBDA ev : ev.e = "readline")

\* ceil(n / s): the least m with m * s >= n
CeilDiv(n, s) == CHOOSE m \in 0..n : m * s >= n /\ \A h \in 0..(m - 1) : h * s < n

\* the payload bytes a written segment carries: the line without the command
\* prefix, read back token by token
RefPayload(line) == RefLineTokens(SubSeq(line, Len(pt_call.command) + 1, Len(line)))

\* the payloads of the writes from write i on, one after the other
RECURSIVE RefWritten(_)
RefWritten(i) ==
    IF i > Len(PassWrites) THEN <<>> ELSE RefPayload(PassWrites[i].data) \o RefWritten(i + 1)

\* the tokens of the reply lines from read i on, one after the other
RECURSIVE RefReplies(_)
RefReplies(i) ==
    IF i > Len(PassReads) THEN <<>> ELSE RefLineTokens(PassReads[i].data) \o RefReplies(i + 1)

\* C15: a passthrough call that completes writes exactly ceil(N/S) segments,
\* each of 1..S payload bytes, whose payloads in write order make up the
\* payload (no segment for N = 0)
C15_SegmentsCoverPayload ==
    (pt_call.done /\ pt_call.res.kind = "Ok")
        => /\ Len(PassWrites) = CeilDiv(Len(pt_call.data), pt_call.size)
           /\ \A i \in 1..Len(PassWrites) :
                 /\ Len(RefPayload(PassWrites[i].data)) >= 1
                 /\ Len(RefPayload(PassWrites[i].data)) <= pt_call.size
           /\ RefWritten(1) = pt_call.data

\* four bytes in segments of three: two writes, the second of one byte
C15_Witness ==
    /\ pt_call.done
    /\ pt_call.res.kind = "Ok"
    /\ pt_call.data = <<0, 10, 171, 255>>
    /\ pt_call.size = 3
    /\ Len(PassWrites) = 2
    /\ PassWrites[2].data = <<CH_s, LF, 70, 70, LF>>

\* C16: the call alternates one write and one reply-line read per segment,
\* and a call that completes returns the tokens of the reply lines in
\* segment order, and in line order within a segment
C16_LockStep ==
    pt_call.done
        => /\ \A i \in 1..Len(pt_call.tr) :
                 pt_call.tr[i].e = IF i % 2 = 1 THEN "write" ELSE "readline"
           /\ Len(pt_call.tr) % 2 = 0
           /\ pt_call.res.kind = "Ok"
                 => /\ Len(PassReads) = CeilDiv(Len(pt_call.data), pt_call.size)
                    /\ pt_call.res.val = RefReplies(1)

\* two segments, each answered "0A b": the result is 0A 0B 0A 0B
C16_Witness ==
    /\ pt_call.done
    /\ pt_call.replies = "fixed"
    /\ Len(pt_call.tr) = 4
    /\ pt_call.res = Ok("bytes", <<10, 11, 10, 11>>)

\* C17: when the device answers each segment with that segment's own
\* rendering, the call returns the payload: decoding the rendering of a
\* segment of 1..S bytes gives the segment back
C17_HexRoundTrip ==
    (pt_call.done /\ pt_call.replies = "echo")
        => /\ pt_call.res = Ok("bytes", pt_call.data)
           /\ \A k \in 1..Len(PassWrites) :
                 HexTokens(JoinHex(Segment(pt_call.data, pt_call.size, k)))
                     = Segment(pt_call.data, pt_call.size, k)

\* a full segment whose bytes need a leading zero, letters and both extremes
C17_Witness ==
    /\ pt_call.done
    /\ pt_call.replies = "echo"
    /\ pt_call.size = 3
    /\ pt_call.data = <<10, 0, 255>>
    /\ pt_call.res = Ok("bytes", <<10, 0, 255>>)

(***************************************************************************)
(* Opening, closing and the bootloader reset                               *)
(***************************************************************************)
\* the handle's state apart from the record of the last call
HandleSame ==
    /\ is_open' = is_open
    /\ stay_open' = stay_open
    /\ sess_inits' = sess_inits
    /\ baudrate' = baudrate

\* C18: close() on a closed transport, and __enter__ or a guard on an open
\* one, call nothing on the transport to close, open or initialize it, leave
\* the handle as it was and do not raise on that account
C18_CloseAndOpenIdempotent ==
    [][/\ (~is_open /\ last'.op = "close")
            => (HandleSame /\ last'.tr = <<>> /\ last'.res.kind = "Ok")
       /\ (is_open /\ last'.op = "__enter__")
            => (HandleSame /\ last'.tr = <<>> /\ last'.res.kind = "Ok")
       /\ (is_open /\ last'.op \in GuardedOps)
            => /\ last'.body_ran
               /\ last'.inits_at_body = sess_inits
               /\ ~HasEvent(last'.tr, "open")
               /\ ~HasEvent(last'.tr, "reset_output_buffer")
               /\ \A i \in 1..Len(last'.tr) :
                     last'.tr[i].e = "write"
                         => last'.tr[i].data \notin {MenuCmd(FALSE), MenuCmd(TRUE)}]_vars

\* a close() that found the transport closed, and closed it stays
C18_Witness ==
    /\ last.op = "close"
    /\ ~last.was_open
    /\ last.tr = <<>>
    /\ ~is_open

\* the value of the last assignment to serial.baudrate in a trace
LastBaudrate(tr) ==
    LET sets == SelectSeq(tr, LAMBDA ev : ev.e = "baudrate")
    IN  IF sets = <<>> THEN -1 ELSE sets[Len(sets)].n

\* C19: reset_to_uf2_bootloader leaves the baud rate at its value at entry,
\* its last assignment being that value, however the call ends and whether
\* the transport was open or closed at entry
C19_BaudrateRestored ==
    [][last'.op = "reset_to_uf2_bootloader"
          => (baudrate' = baudrate /\ LastBaudrate(last'.tr) = baudrate)]_vars

\* a reset on an open transport whose 1200-baud open raised: the baud rate
\* was set to 1200 and is back at the default
C19_Witness ==
    /\ last.op = "reset_to_uf2_bootloader"
    /\ last.was_open
    /\ last.res.kind = "Err"
    /\ \E i \in 1..Len(last.tr) : last.tr[i] = Raised("open")
    /\ \E i \in 1..Len(last.tr) : last.tr[i] = Ev("baudrate", <<>>, BOOTLOADER_BAUDRATE)
    /\ baudrate = DEFAULT_BAUDRATE

\* whether the transport is open just before event i of the last call: as the
\* call found it, or as the latest open or close before i left it (a close
\* that raised counts as having left it open)
OpenBefore(i) ==
    LET prior == {j \in 1..(i - 1) : last.tr[j].e \in {"open", "close"}}
        j == CHOOSE k \in prior : \A h \in prior : h <= k
    IN  IF prior = {} THEN last.was_open
        ELSE \/ last.tr[j].e = "open" /\ last.tr[j].n >= 0
             \/ last.tr[j].e = "close" /\ last.tr[j].n < 0

\* C20: whatever the sequence of guarded operations, with-blocks, close()
\* and resets, serial.open() is never called on an open transport
C20_NeverOpenedTwice ==
    \A i \in 1..Len(last.tr) : last.tr[i].e = "open" => ~OpenBefore(i)

\* a reset on an open transport: it closed it, then opened it at 1200 baud
C20_Witness ==
    /\ last.op = "reset_to_uf2_bootloader"
    /\ last.was_open
    /\ last.res.kind = "Ok"
    /\ last.tr[1] = Returned("close")
    /\ last.tr[3] = Returned("open")

(***************************************************************************)
(* Commands on the wire                                                    *)
(***************************************************************************)
\* the writes of the last call that are not the guard's menu sequence
CommandWrites ==
    SelectSeq(last.tr, LAMBDA ev : ev.e = "write" /\ ev.data \notin {MenuCmd(FALSE), MenuCmd(TRUE)})

\* line is the letter, a line end, the pin as a decimal numeral, a line end
IsSetIoCommand(line, letter, pin) ==
    /\ Len(line) >= 4
    /\ line[1] = letter
    /\ line[2] = LF
    /\ line[Len(line)] = LF
    /\ IsDecimal(SubSeq(line, 3, Len(line) - 1))
    /\ DecimalValue(SubSeq(line, 3, Len(line) - 1)) = pin

CommandFirstOps ==
    {"get_all_io", "poll_i2c", "run_script", "load_fpga_from_file", "send_file", "get_file"}

\* the place in the last call's trace of its first command write, 0 if none
FirstCommandAt ==
    LET at == {i \in 1..Len(last.tr) :
                  /\ last.tr[i].e = "write"
                  /\ last.tr[i].data \notin {MenuCmd(FALSE), MenuCmd(TRUE)}}
    IN  IF at = {} THEN 0 ELSE CHOOSE i \in at : \A j \in at : i <= j

\* the write at place i failed: it raised, took too few bytes, or its flush raised
WriteFailedAt(i) ==
    \/ last.tr[i].n < Len(last.tr[i].data)
    \/ i < Len(last.tr) /\ last.tr[i + 1] = Raised("flush")

\* C22: when the command or header write of a command-first operation fails,
\* nothing is written or read after it (no second try of the command, no
\* payload, no reply read) and the call returns an Err
C22_NoRetryAfterFailedWrite ==
    (/\ last.op \in CommandFirstOps
     /\ last.body_ran
     /\ FirstCommandAt > 0
     /\ WriteFailedAt(FirstCommandAt))
        => /\ last.res.kind = "Err"
           /\ \A j \in (FirstCommandAt + 1)..Len(last.tr) : last.tr[j].e \in {"flush", "close"}

\* send_file whose header was cut short: an Err, and the transport closed
\* without a payload byte written
C22_Witness ==
    /\ last.op = "send_file"
    /\ last.body_ran
    /\ FirstCommandAt > 0
    /\ last.tr[FirstCommandAt].n >= 0
    /\ last.tr[FirstCommandAt].n < Len(last.tr[FirstCommandAt].data)
    /\ last.res.kind = "Err"
    /\ last.tr[Len(last.tr)] = Returned("close")

(***************************************************************************)
(* The checksum as a function of the bytes and of their order              *)
(***************************************************************************)
\* the file reads the same in both directions
Palindrome(f) == \A i \in 1..f.len : CkByte(f, i) = CkByte(f, f.len + 1 - i)

\* C23: the checksum is a function of the byte sequence (two runs over equal
\* sequences agree after every byte) and it depends on the order: the file
\* 00 FF FF ... FF and the same bytes reversed end with different checksums
C23_DeterministicOrderSensitive ==
    /\ Palindrome(ck_file) => checksum = ck_rev
    /\ (/\ ck_pos = ck_file.len
        /\ ck_file.len = CkShortLen
        /\ ck_file.head = <<0>>
        /\ ck_file.fill = 255) => checksum # ck_rev

\* the end of the two runs over 00 FF ... FF and FF ... FF 00
C23_Witness ==
    /\ ck_pos = ck_file.len
    /\ ck_file.len = CkShortLen
    /\ ck_file.head = <<0>>
    /\ ck_file.fill = 255
    /\ checksum # ck_rev
    /\ ck_rev = BitXor(checksum, FOLD_XOR)

\* the plain sum of bytes lo..hi of the file, counted byte by byte for the
\* head and by multiplication for the filled part
RECURSIVE RefHeadSum(_, _, _)
RefHeadSum(f, lo, hi) ==
    IF lo > hi \/ lo > Len(f.head) THEN 0 ELSE f.head[lo] + RefHeadSum(f, lo + 1, hi)

RefSum(f, lo, hi) ==
    LET first == IF lo > Len(f.head) THEN lo ELSE Len(f.head) + 1
    IN  RefHeadSum(f, lo, hi) + (IF hi >= first THEN (hi - first + 1) * f.fill ELSE 0)

\* C28: as long as the bytes read sum to less than 32768 the checksum is
\* their plain sum, in whichever order they are read; a file and its
\* reverse (a permutation of it) then have the same checksum
C28_PlainSumBelowFold ==
    /\ RefSum(ck_file, 1, ck_pos) < 32768 => checksum = RefSum(ck_file, 1, ck_pos)
    /\ RefSum(ck_file, ck_file.len - ck_pos + 1, ck_file.len) < 32768
          => ck_rev = RefSum(ck_file, ck_file.len - ck_pos + 1, ck_file.len)
    /\ (ck_pos = ck_file.len /\ RefSum(ck_file, 1, ck_file.len) < 32768) => checksum = ck_rev

\* 128, 255 and 98 bytes 250 read in both orders: 24883 each time
C28_Witness ==
    /\ ck_file = [head |-> <<128, 255>>, fill |-> 250, len |-> CkPlainLen]
    /\ ck_pos = ck_file.len
    /\ checksum = RefSum(ck_file, 1, ck_file.len)
    /\ ck_rev = checksum
    /\ checksum > 16384

(***************************************************************************)
(* Sessions across operations                                              *)
(***************************************************************************)
\* C24: whenever the body of a guarded operation other than get_app_info
\* runs, the latest menu control sequence written since the transport was
\* opened is the disable sequence (control byte 0x02)
C24_MenuDisabledAtBody ==
    (last.op \in GuardedOps \ {"get_app_info"} /\ last.body_ran)
        => last.menu_at_body = CMD_DISABLE_MENU

\* C25: inside a with-block a guarded operation that finds the transport
\* open leaves it open, whatever stay_open is
C25_OpenThroughoutWith ==
    [][(in_with /\ is_open /\ last'.op \in GuardedOps) => is_open']_vars

\* the first write of a trace is the menu sequence of the operation
FirstWriteIsMenu(tr, op) ==
    \E i \in 1..Len(tr) :
        /\ tr[i].e = "write"
        /\ tr[i].data = MenuCmd(op = "get_app_info")
        /\ \A j \in 1..(i - 1) : tr[j].e # "write"

\* C26: after reset_to_uf2_bootloader returns Ok the transport is closed,
\* whatever stay_open is and however the call found it; a guarded operation
\* called next opens it first and, when its body runs, has written the menu
\* sequence before any command
C26_ClosedAfterReset ==
    /\ []((last.op = "reset_to_uf2_bootloader" /\ last.res.kind = "Ok") => ~is_open)
    /\ [][(/\ last.op = "reset_to_uf2_bootloader"
           /\ last.res.kind = "Ok"
           /\ last'.op \in GuardedOps)
             => /\ last'.opened
                /\ last'.tr[1].e = "open"
                /\ last'.body_ran
                      => (last'.inits_at_body = 1 /\ FirstWriteIsMenu(last'.tr, last'.op))]_vars

\* a reset that found the transport open on a stay_open handle, and left it closed
C26_Witness ==
    /\ last.op = "reset_to_uf2_bootloader"
    /\ last.res.kind = "Ok"
    /\ last.was_open
    /\ last.stay
    /\ ~is_open

====
